---------------------------- MODULE Spec2Model ----------------------------
(***************************************************************************)
(* State-machine model of src/server/IoDispatchers.cpp: the console        *)
(* server's dispatchers ConsoleCreateObject, ConsoleCloseObject,           *)
(* ConsoleHandleConnectionRequest and ConsoleClientDisconnectRoutine, run  *)
(* by concurrent worker threads over the global console state.             *)
(* Each worker has a program counter; one action models one statement (or  *)
(* one collaborator call) of the handler the worker is running.            *)
(***************************************************************************)
EXTENDS Integers, Sequences, FiniteSets, TLC

(* ------------------------------ bounds --------------------------------- *)
MaxConnections == 2
MaxHandles == 1

Workers == {1, 2}
Pids == 1..MaxConnections
NoProcess == 0

(* ------------------------ values of the program ------------------------ *)
STATUS_SUCCESS == "STATUS_SUCCESS"
STATUS_INVALID_PARAMETER == "STATUS_INVALID_PARAMETER"
STATUS_UNSUCCESSFUL == "STATUS_UNSUCCESSFUL"
STATUS_NO_MEMORY == "STATUS_NO_MEMORY"
STATUS_SHARING_VIOLATION == "STATUS_SHARING_VIOLATION"
UNSET == "UNSET"

NT_SUCCESS(s) == s = STATUS_SUCCESS

ObjKinds == {"INPUT", "OUTPUT", "NEW_OUTPUT"}
ObjectTypes == {"GENERIC", "CURRENT_INPUT", "CURRENT_OUTPUT", "NEW_OUTPUT", "UNKNOWN"}
AccessBits == {"GENERIC_READ", "GENERIC_WRITE", "GENERIC_EXECUTE"}

HideOrMinimize == {"SW_HIDE", "SW_SHOWMINIMIZED", "SW_MINIMIZE",
                   "SW_SHOWMINNOACTIVE", "SW_FORCEMINIMIZE"}
ShowWindowValues == HideOrMinimize \cup {"SW_SHOWNORMAL", "SW_SHOWMAXIMIZED"}

(* Launch-time facts: what _shouldAttemptHandoff reads, and whether the    *)
(* service locator has an accessibility notifier (pNotifier non-null).     *)
HandoffFriendly == [featureEnabled |-> TRUE, interactive |-> TRUE, forceNoHandoff |-> FALSE,
                    createServerHandle |-> FALSE, headless |-> FALSE,
                    clsidRegistered |-> TRUE, handoffTarget |-> FALSE,
                    pNotifier |-> TRUE]

(* The launch configurations explored by the dispatcher specification: the *)
(* one in which no launch-time condition blocks handoff, and two blocked.  *)
LaunchConfigs == {HandoffFriendly,
                  [HandoffFriendly EXCEPT !.headless = TRUE, !.pNotifier = FALSE]}

CacInputs == [ConsoleApp : BOOLEAN, deservesVisibleWindow : BOOLEAN,
              useShowWindow : BOOLEAN, showWindow : ShowWindowValues]

NoCac == [ConsoleApp |-> FALSE, deservesVisibleWindow |-> FALSE,
          useShowWindow |-> FALSE, showWindow |-> "SW_HIDE"]

(* The connect descriptors the dispatcher specification draws from: a      *)
(* console application with a normal window, an AttachConsole connection,  *)
(* and a console application started hidden.                               *)
AppConnect == [ConsoleApp |-> TRUE, deservesVisibleWindow |-> TRUE,
               useShowWindow |-> FALSE, showWindow |-> "SW_SHOWNORMAL"]

ConnectDescriptors == {AppConnect,
                       [AppConnect EXCEPT !.ConsoleApp = FALSE],
                       [AppConnect EXCEPT !.useShowWindow = TRUE, !.showWindow = "SW_HIDE"]}

VARIABLES
    pc,                 \* [Workers -> position of the worker in its handler]
    msg,                \* [Workers -> the request message and its reply slot]
    Status,             \* [Workers -> the handler's local NTSTATUS]
    ProcessData,        \* [Workers -> the handler's local ConsoleProcessHandle*]
    Cac,                \* [Workers -> the handler's CONSOLE_API_CONNECTINFO]
    handle,             \* [Workers -> CreateObject's local unique_ptr<ConsoleHandleData>]
    hres,               \* [Workers -> the handoff attempt's scoped handles]
    lockOwner,          \* the worker holding the console lock, or 0
    launch,             \* launch arguments and registration (Globals)
    Flags,              \* gci.Flags has CONSOLE_INITIALIZED
    hInputEvent,        \* Globals.hInputEvent: "held" or "null"
    ProcessHandleList,  \* [Pids -> record or absent]
    history,            \* pids owning a CommandHistory slot
    objRef,             \* [ObjKinds -> number of live handles on the object]
    driverHandles,      \* [ObjKinds -> handles owned by the transport layer]
    nextPid,            \* next connecting process id
    terminated,         \* ExitProcess has run
    trace,              \* [Workers -> events of the current request, in order]
    snap,               \* [Workers -> state recorded when the handler took the lock]
    out,                \* [Workers -> outcomes of the collaborator calls so far]
    handoffConfirmed    \* some EstablishHandoff call has returned success

workerVars == <<pc, msg, Status, ProcessData, Cac, handle, hres>>
globalVars == <<lockOwner, launch, Flags, hInputEvent, ProcessHandleList, history,
                objRef, driverHandles, nextPid, terminated>>
ghostVars == <<trace, snap, out, handoffConfirmed>>
vars == <<workerVars, globalVars, ghostVars>>

(* --------------------------- initial values ---------------------------- *)
NoMsg == [kind |-> "none", pid |-> NoProcess, type |-> "UNKNOWN", access |-> {},
          replyStatus |-> UNSET, replyInfo |-> FALSE, ret |-> "none",
          completeCalls |-> 0, delivered |-> FALSE]

NoRes == [theirSide |-> "none", ourSide |-> "none", ourProcess |-> "none",
          clientProcess |-> "none",
          relTheir |-> 0, relOur |-> 0, relProc |-> 0, relClient |-> 0, relWake |-> 0,
          attempted |-> FALSE, established |-> FALSE]

Absent == [present |-> FALSE, root |-> FALSE, inH |-> FALSE, outH |-> FALSE]

NoSnap == [taken |-> FALSE, Flags |-> FALSE, hInputEvent |-> "held", pids |-> {},
           history |-> {}, objRef |-> [k \in ObjKinds |-> 0],
           clientRefs |-> [k \in ObjKinds |-> 0]]

NoOut == [connectInfo |-> "na", alloc |-> "na", allocConsole |-> "na", history |-> "na",
          inH |-> "na", outH |-> "na", complete |-> "na", remove |-> "na",
          frees |-> 0]

InitFrom(configs) ==
    /\ pc = [w \in Workers |-> "idle"]
    /\ msg = [w \in Workers |-> NoMsg]
    /\ Status = [w \in Workers |-> UNSET]
    /\ ProcessData = [w \in Workers |-> NoProcess]
    /\ Cac = [w \in Workers |-> NoCac]
    /\ handle = [w \in Workers |-> "none"]
    /\ hres = [w \in Workers |-> NoRes]
    /\ lockOwner = 0
    /\ launch \in configs
    /\ Flags = FALSE
    /\ hInputEvent = "held"
    /\ ProcessHandleList = [p \in Pids |-> Absent]
    /\ history = {}
    /\ objRef = [k \in ObjKinds |-> 0]
    /\ driverHandles = [k \in ObjKinds |-> 0]
    /\ nextPid = 1
    /\ terminated = FALSE
    /\ trace = [w \in Workers |-> <<>>]
    /\ snap = [w \in Workers |-> NoSnap]
    /\ out = [w \in Workers |-> NoOut]
    /\ handoffConfirmed = FALSE

Init == InitFrom(LaunchConfigs)


(* ----------------------------- helpers --------------------------------- *)
Goto(w, l) == pc' = [pc EXCEPT ![w] = l]

Ev(w, e) == trace' = [trace EXCEPT ![w] = Append(@, e)]

Outcome(ok) == IF ok THEN "ok" ELSE "fail"

(* LockConsole: the console lock is free and the worker takes it. *)
LockConsole(w) ==
    /\ lockOwner = 0
    /\ lockOwner' = w

(* UnlockConsole: the lock is left; leaving a lock one does not hold is recorded. *)
UnlockConsole(w) ==
    /\ lockOwner' = IF lockOwner = w THEN 0 ELSE lockOwner

(* ProcessHandleList.FreeProcessData: the record leaves the list and its      *)
(* pInputHandle / pOutputHandle are destroyed with it.                        *)
FreeProcessData(list, p) == [list EXCEPT ![p] = Absent]

RefsAfterFree(refs, rec) ==
    [refs EXCEPT !["INPUT"] = @ - (IF rec.inH THEN 1 ELSE 0),
                 !["OUTPUT"] = @ - (IF rec.outH THEN 1 ELSE 0)]

(* CommandHistory::s_Free *)
s_Free(h, p) == h \ {p}

(* ---------------------- _shouldAttemptHandoff -------------------------- *)
IgnoresShowWindow(globals, initialized, cac) ==
    /\ globals.featureEnabled /\ globals.interactive /\ ~globals.forceNoHandoff
    /\ ~globals.createServerHandle /\ ~initialized /\ cac.ConsoleApp
    /\ ~globals.headless /\ globals.clsidRegistered /\ ~globals.handoffTarget
    /\ cac.deservesVisibleWindow

ShouldAttemptHandoff(globals, initialized, cac) ==
    IF ~globals.featureEnabled THEN FALSE
    ELSE IF ~globals.interactive THEN FALSE
    ELSE IF globals.forceNoHandoff THEN FALSE
    ELSE IF globals.createServerHandle THEN FALSE
    ELSE IF initialized THEN FALSE
    ELSE IF ~cac.ConsoleApp THEN FALSE
    ELSE IF globals.headless THEN FALSE
    ELSE IF ~globals.clsidRegistered THEN FALSE
    ELSE IF globals.handoffTarget THEN FALSE
    ELSE IF ~cac.deservesVisibleWindow THEN FALSE
    ELSE IF cac.useShowWindow /\ cac.showWindow \in HideOrMinimize THEN FALSE
    ELSE TRUE

(* --------------------- receiving a request, returning ------------------ *)
(* A worker that has left its handler's last statement runs to the end of  *)
(* its return before another worker is scheduled: the function-exit        *)
(* destructors ("co_exit") and the hand-over of the reply to the I/O loop  *)
(* ("done") are not interleaved with other workers' statements.            *)
Returning == {"co_exit", "done"}

Scheduled == ~terminated /\ \A v \in Workers : pc[v] \notin Returning

ResetLocals(w) ==
    /\ Status' = [Status EXCEPT ![w] = UNSET]
    /\ ProcessData' = [ProcessData EXCEPT ![w] = NoProcess]
    /\ Cac' = [Cac EXCEPT ![w] = NoCac]
    /\ handle' = [handle EXCEPT ![w] = "none"]
    /\ hres' = [hres EXCEPT ![w] = NoRes]
    /\ trace' = [trace EXCEPT ![w] = <<>>]
    /\ snap' = [snap EXCEPT ![w] = NoSnap]
    /\ out' = [out EXCEPT ![w] = NoOut]

(* The dispatcher has returned; the worker picks up its next request. *)
Return(w) ==
    /\ pc[w] = "done"
    /\ ~terminated
    /\ Goto(w, "idle")
    /\ msg' = [msg EXCEPT ![w] = NoMsg]
    /\ ResetLocals(w)
    /\ UNCHANGED <<globalVars, handoffConfirmed>>

(* Handles on a console object that process records own: pInputHandle on   *)
(* the input buffer, pOutputHandle on the main screen buffer.              *)
RecordRefs(list, k) ==
    Cardinality({p \in Pids : \/ k = "INPUT" /\ list[p].inH
                              \/ k = "OUTPUT" /\ list[p].outH})

(* Handles on a console object created for clients by ConsoleCreateObject. *)
ClientRefs(refs, list) == [k \in ObjKinds |-> refs[k] - RecordRefs(list, k)]

TakeSnap(w) ==
    snap' = [snap EXCEPT ![w] =
               [taken |-> TRUE, Flags |-> Flags, hInputEvent |-> hInputEvent,
                pids |-> {p \in Pids : ProcessHandleList[p].present},
                history |-> history, objRef |-> objRef,
                clientRefs |-> ClientRefs(objRef, ProcessHandleList)]]

(* ------------------ ConsoleHandleConnectionRequest --------------------- *)
(* A connection request arrives for the next client process; the handler's *)
(* first statement on shared state is LockConsole().                        *)
CR_Lock(w) ==
    /\ pc[w] = "idle"
    /\ Scheduled
    /\ nextPid <= MaxConnections
    /\ LockConsole(w)
    /\ msg' = [msg EXCEPT ![w] = [NoMsg EXCEPT !.kind = "connect", !.pid = nextPid]]
    /\ nextPid' = nextPid + 1
    /\ TakeSnap(w)
    /\ Goto(w, "cr_connectinfo")
    /\ UNCHANGED <<Status, ProcessData, Cac, handle, hres, launch, Flags, hInputEvent,
                   ProcessHandleList, history, objRef, driverHandles, terminated,
                   trace, out, handoffConfirmed>>

(* Status = ConsoleInitializeConnectInfo(pReceiveMsg, &Cac); return on failure. *)
ContinueAfterConnectInfo == "cr_should"

ReturnAfterConnectInfo == "cr_cleanup"

ConsoleInitializeConnectInfo(w, descriptors) ==
    /\ pc[w] = "cr_connectinfo"
    /\ Scheduled
    /\ \E ok \in BOOLEAN, c \in descriptors \cup {NoCac} :
         /\ Status' = [Status EXCEPT ![w] = IF ok THEN STATUS_SUCCESS
                                                ELSE STATUS_INVALID_PARAMETER]
         /\ Cac' = [Cac EXCEPT ![w] = IF ok THEN c ELSE NoCac]
         /\ (ok => c \in descriptors)
         /\ (~ok => c = NoCac)
         /\ out' = [out EXCEPT ![w].connectInfo = Outcome(ok)]
         /\ msg' = [msg EXCEPT ![w].ret = IF ok THEN @ ELSE "msg"]
         /\ Goto(w, IF ok THEN "cr_should" ELSE ReturnAfterConnectInfo)
    /\ UNCHANGED <<ProcessData, handle, hres, globalVars, trace, snap, handoffConfirmed>>

CR_InitializeConnectInfo(w) == ConsoleInitializeConnectInfo(w, ConnectDescriptors)

CR_ShouldAttemptHandoff(w) ==
    /\ pc[w] = "cr_should"
    /\ Scheduled
    /\ LET attempt == ShouldAttemptHandoff(launch, Flags, Cac[w]) IN
         /\ hres' = [hres EXCEPT ![w].attempted = attempt]
         /\ Goto(w, IF attempt THEN "ho_activate" ELSE "cr_alloc")
    /\ UNCHANGED <<msg, Status, ProcessData, Cac, handle, globalVars, ghostVars>>

(* ------------------------- the handoff attempt ------------------------- *)
(* Where control goes once the catch block has logged the failure: the     *)
(* statement after the if, AllocProcessData.                                *)
ReturnAfterCatch == "cr_cleanup"

AfterCatch == "cr_alloc"

HandoffUnchanged == UNCHANGED <<msg, Status, ProcessData, Cac, handle, lockOwner, launch,
                                Flags, ProcessHandleList, history, objRef, driverHandles,
                                nextPid, terminated, trace, snap, out>>

(* THROW_IF_FAILED(CoCreateInstance(...)) *)
HO_Activate(w) ==
    /\ pc[w] = "ho_activate"
    /\ Scheduled
    /\ \E ok \in BOOLEAN : Goto(w, IF ok THEN "ho_server" ELSE "ho_catch")
    /\ HandoffUnchanged
    /\ UNCHANGED <<hres, hInputEvent, handoffConfirmed>>

(* THROW_IF_FAILED(Globals.pDeviceComm->GetServerHandle(&serverHandle)) *)
HO_GetServerHandle(w) ==
    /\ pc[w] = "ho_server"
    /\ Scheduled
    /\ \E ok \in BOOLEAN : Goto(w, IF ok THEN "ho_pipe" ELSE "ho_catch")
    /\ HandoffUnchanged
    /\ UNCHANGED <<hres, hInputEvent, handoffConfirmed>>

(* THROW_IF_WIN32_BOOL_FALSE(CreatePipe(ourSide, theirSide)) *)
HO_CreatePipe(w) ==
    /\ pc[w] = "ho_pipe"
    /\ Scheduled
    /\ \E ok \in BOOLEAN :
         /\ hres' = [hres EXCEPT ![w].ourSide = IF ok THEN "open" ELSE @,
                                 ![w].theirSide = IF ok THEN "open" ELSE @]
         /\ Goto(w, IF ok THEN "ho_dup" ELSE "ho_catch")
    /\ HandoffUnchanged
    /\ UNCHANGED <<hInputEvent, handoffConfirmed>>

(* THROW_IF_WIN32_BOOL_FALSE(DuplicateHandle(..., ourProcess.addressof(), ...)) *)
HO_DuplicateHandle(w) ==
    /\ pc[w] = "ho_dup"
    /\ Scheduled
    /\ \E ok \in BOOLEAN :
         /\ hres' = [hres EXCEPT ![w].ourProcess = IF ok THEN "open" ELSE @]
         /\ Goto(w, IF ok THEN "ho_establish" ELSE "ho_catch")
    /\ HandoffUnchanged
    /\ UNCHANGED <<hInputEvent, handoffConfirmed>>

(* THROW_IF_FAILED(handoff->EstablishHandoff(..., &clientProcess)) *)
HO_EstablishHandoff(w) ==
    /\ pc[w] = "ho_establish"
    /\ Scheduled
    /\ \E ok \in BOOLEAN :
         /\ hres' = [hres EXCEPT ![w].established = ok,
                                 ![w].clientProcess = IF ok THEN "open" ELSE @]
         /\ handoffConfirmed' = (handoffConfirmed \/ ok)
         /\ trace' = [trace EXCEPT ![w] = IF ok THEN Append(@, "EstablishHandoff") ELSE @]
         /\ Goto(w, IF ok THEN "ho_release" ELSE "ho_catch")
    /\ UNCHANGED <<msg, Status, ProcessData, Cac, handle, globalVars, snap, out>>

(* signalPipeTheirSide.reset(); ourProcess.reset(); Globals.hInputEvent.reset(); *)
HO_ReleaseTransferred(w) ==
    /\ pc[w] = "ho_release"
    /\ Scheduled
    /\ hres' = [hres EXCEPT ![w].theirSide = "closed", ![w].relTheir = @ + 1,
                            ![w].ourProcess = "closed", ![w].relProc = @ + 1,
                            ![w].relWake = IF hInputEvent = "held" THEN @ + 1 ELSE @]
    /\ hInputEvent' = "null"
    /\ Ev(w, "ReleaseTransferred")
    /\ Goto(w, "ho_listener")
    /\ UNCHANGED <<msg, Status, ProcessData, Cac, handle, lockOwner, launch, Flags,
                   ProcessHandleList, history, objRef, driverHandles, nextPid, terminated,
                   snap, out, handoffConfirmed>>

(* std::make_unique<HostSignalInputThread>(std::move(signalPipeOurSide)) *)
HO_CreateListener(w) ==
    /\ pc[w] = "ho_listener"
    /\ Scheduled
    /\ \E ok \in BOOLEAN :
         /\ hres' = [hres EXCEPT ![w].ourSide = IF ok THEN "listener" ELSE @]
         /\ Goto(w, IF ok THEN "ho_start" ELSE "ho_catch")
    /\ HandoffUnchanged
    /\ UNCHANGED <<hInputEvent, handoffConfirmed>>

(* THROW_IF_FAILED(hostSignalThread->Start()) *)
HO_StartListener(w) ==
    /\ pc[w] = "ho_start"
    /\ Scheduled
    /\ \E ok \in BOOLEAN :
         /\ trace' = [trace EXCEPT ![w] = IF ok THEN Append(@, "ListenerStarted") ELSE @]
         /\ Goto(w, IF ok THEN "ho_unlock" ELSE "ho_catch")
    /\ UNCHANGED <<msg, Status, ProcessData, Cac, handle, hres, globalVars, snap, out, handoffConfirmed>>

(* UnlockConsole() before the wait *)
WaitHoldingLock(w) == UNCHANGED <<lockOwner, trace>>

UnlockBeforeWait(w) == UnlockConsole(w) /\ Ev(w, "UnlockConsole")

HO_Unlock(w) ==
    /\ pc[w] = "ho_unlock"
    /\ Scheduled
    /\ UnlockBeforeWait(w)
    /\ UNCHANGED handoffConfirmed
    /\ Goto(w, "ho_wait")
    /\ UNCHANGED <<msg, Status, ProcessData, Cac, handle, hres, launch, Flags, hInputEvent,
                   ProcessHandleList, history, objRef, driverHandles, nextPid, terminated,
                   snap, out>>

(* WaitForSingleObject(clientProcess.get(), INFINITE) returns *)
HO_Wait(w) ==
    /\ pc[w] = "ho_wait"
    /\ Scheduled
    /\ Ev(w, "WaitReturned")
    /\ Goto(w, "ho_exit")
    /\ UNCHANGED <<msg, Status, ProcessData, Cac, handle, hres, globalVars, snap, out, handoffConfirmed>>

(* Unwinding into catch (...): every scoped handle still owned is closed by *)
(* its destructor (the listener object closes the end moved into it).       *)
ClosedAgainOnUnwind(r) ==
    [r EXCEPT !.theirSide = IF @ = "open" THEN "closed" ELSE @,
              !.relTheir = IF r.theirSide \in {"open", "closed"} THEN @ + 1 ELSE @,
              !.ourSide = IF @ \in {"open", "listener"} THEN "closed" ELSE @,
              !.relOur = IF r.ourSide \in {"open", "listener"} THEN @ + 1 ELSE @,
              !.ourProcess = IF @ = "open" THEN "closed" ELSE @,
              !.relProc = IF r.ourProcess \in {"open", "closed"} THEN @ + 1 ELSE @,
              !.clientProcess = IF @ = "open" THEN "closed" ELSE @,
              !.relClient = IF r.clientProcess = "open" THEN @ + 1 ELSE @]

Unwound(r) ==
    [r EXCEPT !.theirSide = IF @ = "open" THEN "closed" ELSE @,
              !.relTheir = IF r.theirSide = "open" THEN @ + 1 ELSE @,
              !.ourSide = IF @ \in {"open", "listener"} THEN "closed" ELSE @,
              !.relOur = IF r.ourSide \in {"open", "listener"} THEN @ + 1 ELSE @,
              !.ourProcess = IF @ = "open" THEN "closed" ELSE @,
              !.relProc = IF r.ourProcess = "open" THEN @ + 1 ELSE @,
              !.clientProcess = IF @ = "open" THEN "closed" ELSE @,
              !.relClient = IF r.clientProcess = "open" THEN @ + 1 ELSE @]

(* ExitProcess(S_OK): "Exit process to clean up any outstanding things we   *)
(* have open" - the handles the attempt still owns are closed with it.      *)
HO_ExitProcess(w) ==
    /\ pc[w] = "ho_exit"
    /\ Scheduled
    /\ terminated' = TRUE
    /\ hres' = [hres EXCEPT ![w] = Unwound(@)]
    /\ Ev(w, "ExitProcess")
    /\ Goto(w, "exited")
    /\ UNCHANGED <<msg, Status, ProcessData, Cac, handle, lockOwner, launch, Flags,
                   hInputEvent, ProcessHandleList, history, objRef, driverHandles, nextPid,
                   snap, out, handoffConfirmed>>

HO_Catch(w) ==
    /\ pc[w] = "ho_catch"
    /\ Scheduled
    /\ hres' = [hres EXCEPT ![w] = Unwound(@)]
    /\ Ev(w, "HandoffFailed")
    /\ Goto(w, AfterCatch)
    /\ UNCHANGED <<msg, Status, ProcessData, Cac, handle, globalVars, snap, out, handoffConfirmed>>

(* --------------------------- local bring-up ---------------------------- *)
(* Status = AllocProcessData(dwProcessId, ..., &ProcessData); return on failure. *)
CR_AllocProcessData(w) ==
    /\ pc[w] = "cr_alloc"
    /\ Scheduled
    /\ \E ok \in BOOLEAN :
         LET p == msg[w].pid IN
         /\ Status' = [Status EXCEPT ![w] = IF ok THEN STATUS_SUCCESS ELSE STATUS_NO_MEMORY]
         /\ ProcessData' = [ProcessData EXCEPT ![w] = IF ok THEN p ELSE @]
         /\ ProcessHandleList' = IF ok THEN [ProcessHandleList EXCEPT ![p].present = TRUE]
                                       ELSE ProcessHandleList
         /\ out' = [out EXCEPT ![w].alloc = Outcome(ok)]
         /\ msg' = [msg EXCEPT ![w].ret = IF ok THEN @ ELSE "msg"]
         /\ Goto(w, IF ok THEN "cr_root" ELSE "cr_cleanup")
    /\ UNCHANGED <<Cac, handle, hres, lockOwner, launch, Flags, hInputEvent, history, objRef,
                   driverHandles, nextPid, terminated, trace, snap, handoffConfirmed>>

(* ProcessData->fRootProcess = WI_IsFlagClear(gci.Flags, CONSOLE_INITIALIZED) *)
AlwaysRoot(initialized) == TRUE

RootProcess(initialized) == ~initialized

CR_SetRoot(w) ==
    /\ pc[w] = "cr_root"
    /\ Scheduled
    /\ ProcessHandleList' = [ProcessHandleList EXCEPT ![ProcessData[w]].root = RootProcess(Flags)]
    /\ Goto(w, "cr_notify")
    /\ UNCHANGED <<msg, Status, ProcessData, Cac, handle, hres, lockOwner, launch, Flags,
                   hInputEvent, history, objRef, driverHandles, nextPid, terminated,
                   ghostVars>>

(* if (Cac.ConsoleApp) NotifyConsoleApplication;                            *)
(* if (pNotifier) pNotifier->NotifyConsoleStartApplicationEvent             *)
NotifyBothForApplication(consoleApp, notifier) ==
    IF consoleApp
    THEN <<"NotifyConsoleApplication">>
           \o (IF notifier THEN <<"NotifyConsoleStartApplicationEvent">> ELSE <<>>)
    ELSE <<>>

NotifyEvents(consoleApp, notifier) ==
    (IF consoleApp THEN <<"NotifyConsoleApplication">> ELSE <<>>)
      \o (IF notifier THEN <<"NotifyConsoleStartApplicationEvent">> ELSE <<>>)

CR_Notify(w) ==
    /\ pc[w] = "cr_notify"
    /\ Scheduled
    /\ trace' = [trace EXCEPT ![w] = @ \o NotifyEvents(Cac[w].ConsoleApp, launch.pNotifier)]
    /\ UNCHANGED out
    /\ Goto(w, "cr_allocconsole")
    /\ UNCHANGED <<msg, Status, ProcessData, Cac, handle, hres, globalVars, snap, handoffConfirmed>>

(* if (WI_IsFlagClear(gci.Flags, CONSOLE_INITIALIZED))                      *)
(* { Status = ConsoleAllocateConsole(&Cac); return on failure;              *)
(*   WI_SetFlag(gci.Flags, CONSOLE_INITIALIZED); }                          *)
AlwaysInitialize(initialized) == TRUE

ShouldInitialize(initialized) == ~initialized

SetEvenOnFailure(ok, initialized) == TRUE

FlagsAfterAllocateConsole(ok, initialized) == IF ok THEN TRUE ELSE initialized

CR_AllocateConsole(w) ==
    /\ pc[w] = "cr_allocconsole"
    /\ Scheduled
    /\ IF ShouldInitialize(Flags)
       THEN \E ok \in BOOLEAN :
              /\ Status' = [Status EXCEPT ![w] = IF ok THEN STATUS_SUCCESS
                                                     ELSE STATUS_UNSUCCESSFUL]
              /\ Flags' = FlagsAfterAllocateConsole(ok, Flags)
              /\ out' = [out EXCEPT ![w].allocConsole = Outcome(ok)]
              /\ Ev(w, "ConsoleAllocateConsole")
              /\ msg' = [msg EXCEPT ![w].ret = IF ok THEN @ ELSE "msg"]
              /\ Goto(w, IF ok THEN "cr_history" ELSE "cr_cleanup")
       ELSE /\ Goto(w, "cr_history")
            /\ UNCHANGED <<msg, Status, Flags, out, trace>>
    /\ UNCHANGED <<ProcessData, Cac, handle, hres, lockOwner, launch, hInputEvent,
                   ProcessHandleList, history, objRef, driverHandles, nextPid, terminated,
                   snap, handoffConfirmed>>

(* try { CommandHistory::s_Allocate(...) } catch (...) { LOG; return pReceiveMsg; } *)
CR_HistoryAllocate(w) ==
    /\ pc[w] = "cr_history"
    /\ Scheduled
    /\ \E ok \in BOOLEAN :
         /\ history' = IF ok THEN history \cup {ProcessData[w]} ELSE history
         /\ out' = [out EXCEPT ![w].history = Outcome(ok)]
         /\ msg' = [msg EXCEPT ![w].ret = IF ok THEN @ ELSE "msg"]
         /\ Goto(w, IF ok THEN "cr_focus" ELSE "cr_cleanup")
    /\ UNCHANGED <<Status, ProcessData, Cac, handle, hres, lockOwner, launch, Flags,
                   hInputEvent, ProcessHandleList, objRef, driverHandles, nextPid,
                   terminated, trace, snap, handoffConfirmed>>

(* gci.ProcessHandleList.ModifyConsoleProcessFocus(inConpty || hasFocus) *)
CR_Focus(w) ==
    /\ pc[w] = "cr_focus"
    /\ Scheduled
    /\ Ev(w, "ModifyConsoleProcessFocus")
    /\ Goto(w, "cr_inhandle")
    /\ UNCHANGED <<msg, Status, ProcessData, Cac, handle, hres, globalVars, snap, out, handoffConfirmed>>

(* Status = gci.pInputBuffer->AllocateIoHandle(..., ProcessData->pInputHandle) *)
CR_AllocInputHandle(w) ==
    /\ pc[w] = "cr_inhandle"
    /\ Scheduled
    /\ \E ok \in BOOLEAN :
         /\ Status' = [Status EXCEPT ![w] = IF ok THEN STATUS_SUCCESS
                                                ELSE STATUS_SHARING_VIOLATION]
         /\ ProcessHandleList' = [ProcessHandleList EXCEPT ![ProcessData[w]].inH = ok]
         /\ objRef' = [objRef EXCEPT !["INPUT"] = IF ok THEN @ + 1 ELSE @]
         /\ out' = [out EXCEPT ![w].inH = Outcome(ok)]
         /\ msg' = [msg EXCEPT ![w].ret = IF ok THEN @ ELSE "msg"]
         /\ Goto(w, IF ok THEN "cr_outhandle" ELSE "cr_cleanup")
    /\ UNCHANGED <<ProcessData, Cac, handle, hres, lockOwner, launch, Flags, hInputEvent,
                   history, driverHandles, nextPid, terminated, trace, snap, handoffConfirmed>>

(* Status = screenInfo.AllocateIoHandle(..., ProcessData->pOutputHandle) *)
CR_AllocOutputHandle(w) ==
    /\ pc[w] = "cr_outhandle"
    /\ Scheduled
    /\ \E ok \in BOOLEAN :
         /\ Status' = [Status EXCEPT ![w] = IF ok THEN STATUS_SUCCESS
                                                ELSE STATUS_SHARING_VIOLATION]
         /\ ProcessHandleList' = [ProcessHandleList EXCEPT ![ProcessData[w]].outH = ok]
         /\ objRef' = [objRef EXCEPT !["OUTPUT"] = IF ok THEN @ + 1 ELSE @]
         /\ out' = [out EXCEPT ![w].outH = Outcome(ok)]
         /\ msg' = [msg EXCEPT ![w].ret = IF ok THEN @ ELSE "msg"]
         /\ Goto(w, IF ok THEN "cr_complete" ELSE "cr_cleanup")
    /\ UNCHANGED <<ProcessData, Cac, handle, hres, lockOwner, launch, Flags, hInputEvent,
                   history, driverHandles, nextPid, terminated, trace, snap, handoffConfirmed>>

(* SetReplyStatus(STATUS_SUCCESS); SetReplyInformation(...);                *)
(* if (FAILED(deviceComm->CompleteIo(...))) { s_Free; FreeProcessData; }    *)
CR_Complete(w) ==
    /\ pc[w] = "cr_complete"
    /\ Scheduled
    /\ \E ok \in BOOLEAN :
         LET p == ProcessData[w] IN
         /\ msg' = [msg EXCEPT ![w].replyStatus = STATUS_SUCCESS, ![w].replyInfo = TRUE,
                               ![w].completeCalls = @ + 1, ![w].delivered = ok]
         /\ history' = IF ok THEN history ELSE s_Free(history, p)
         /\ ProcessHandleList' = IF ok THEN ProcessHandleList
                                       ELSE FreeProcessData(ProcessHandleList, p)
         /\ objRef' = IF ok THEN objRef ELSE RefsAfterFree(objRef, ProcessHandleList[p])
         /\ out' = [out EXCEPT ![w].complete = Outcome(ok),
                               ![w].frees = IF ok THEN @ ELSE @ + 1]
         /\ Ev(w, "CompleteIo")
    /\ Goto(w, "cr_trace")
    /\ UNCHANGED <<Status, ProcessData, Cac, handle, hres, lockOwner, launch, Flags,
                   hInputEvent, driverHandles, nextPid, terminated, snap, handoffConfirmed>>

(* Tracing::s_TraceConsoleAttachDetach(ProcessData, true); return nullptr; *)
ReturnMessageAfterCompleteIo == "msg"

ReturnAfterCompleteIo == "null"

CR_Trace(w) ==
    /\ pc[w] = "cr_trace"
    /\ Scheduled
    /\ Ev(w, IF ProcessHandleList[ProcessData[w]].present THEN "TraceAttach"
                                                            ELSE "TraceAttachOfFreed")
    /\ msg' = [msg EXCEPT ![w].ret = ReturnAfterCompleteIo]
    /\ Goto(w, "cr_cleanup")
    /\ UNCHANGED <<Status, ProcessData, Cac, handle, hres, globalVars, snap, out,
                   handoffConfirmed>>

(* The scope_exit: if (!NT_SUCCESS(Status)) { SetReplyStatus(Status);       *)
(* if (ProcessData) { s_Free; FreeProcessData; } }  UnlockConsole();        *)
FreesWheneverAllocated(status, p) == p # NoProcess

CleanupFrees(status, p) == ~NT_SUCCESS(status) /\ p # NoProcess

CR_Cleanup(w) ==
    /\ pc[w] = "cr_cleanup"
    /\ Scheduled
    /\ LET failed == ~NT_SUCCESS(Status[w])
           p == ProcessData[w]
           free == CleanupFrees(Status[w], p)
       IN
         /\ msg' = [msg EXCEPT ![w].replyStatus = IF failed THEN Status[w] ELSE @]
         /\ history' = IF free THEN s_Free(history, p) ELSE history
         /\ ProcessHandleList' = IF free THEN FreeProcessData(ProcessHandleList, p)
                                         ELSE ProcessHandleList
         /\ objRef' = IF free THEN RefsAfterFree(objRef, ProcessHandleList[p]) ELSE objRef
         /\ out' = [out EXCEPT ![w].frees = IF free THEN @ + 1 ELSE @]
    /\ UnlockConsole(w)
    /\ Ev(w, "UnlockConsole")
    /\ Goto(w, "done")
    /\ UNCHANGED <<Status, ProcessData, Cac, handle, hres, launch, Flags, hInputEvent,
                   driverHandles, nextPid, terminated, snap, handoffConfirmed>>

(* -------------------------- ConsoleCreateObject ------------------------ *)
AccessMasks == SUBSET AccessBits

(* The create requests the dispatcher specification draws from: a generic  *)
(* hint with every access mask, each specific type, an unknown type.        *)
CreateRequests ==
    {[type |-> "GENERIC", access |-> a] : a \in AccessMasks}
    \cup {[type |-> t, access |-> {"GENERIC_READ", "GENERIC_WRITE"}] :
             t \in ObjectTypes \ {"GENERIC"}}

TotalHandles == driverHandles["INPUT"] + driverHandles["OUTPUT"] + driverHandles["NEW_OUTPUT"]

InFlightCreates == Cardinality({v \in Workers : msg[v].kind = "create"})

(* A create request arrives from a client of the initialized session. *)
CO_Lock(w) ==
    /\ pc[w] = "idle"
    /\ Scheduled
    /\ Flags
    /\ TotalHandles + InFlightCreates < MaxHandles
    /\ LockConsole(w)
    /\ TakeSnap(w)
    /\ \E r \in CreateRequests :
         /\ msg' = [msg EXCEPT ![w] = [NoMsg EXCEPT !.kind = "create", !.type = r.type,
                                                    !.access = r.access]]
         /\ trace' = [trace EXCEPT ![w] = <<r.type>>]
    /\ Goto(w, "co_resolve")
    /\ UNCHANGED <<Status, ProcessData, Cac, handle, hres, launch, Flags, hInputEvent,
                   ProcessHandleList, history, objRef, driverHandles, nextPid, terminated,
                   out, handoffConfirmed>>

(* if (ObjectType == GENERIC) { (access & (R|W)) == R -> CURRENT_INPUT;      *)
(*                              (access & (R|W)) == W -> CURRENT_OUTPUT }    *)
ResolveByReadBit(t, access) ==
    IF t = "GENERIC"
    THEN IF "GENERIC_READ" \in access THEN "CURRENT_INPUT"
         ELSE IF "GENERIC_WRITE" \in access THEN "CURRENT_OUTPUT" ELSE t
    ELSE t

ResolveObjectType(t, access) ==
    IF t = "GENERIC"
    THEN IF access \cap {"GENERIC_READ", "GENERIC_WRITE"} = {"GENERIC_READ"}
         THEN "CURRENT_INPUT"
         ELSE IF access \cap {"GENERIC_READ", "GENERIC_WRITE"} = {"GENERIC_WRITE"}
              THEN "CURRENT_OUTPUT"
              ELSE t
    ELSE t

CO_Resolve(w) ==
    /\ pc[w] = "co_resolve"
    /\ Scheduled
    /\ msg' = [msg EXCEPT ![w].type = ResolveObjectType(@, msg[w].access)]
    /\ Goto(w, "co_alloc")
    /\ UNCHANGED <<Status, ProcessData, Cac, handle, hres, globalVars, ghostVars>>

(* switch (ObjectType): the object whose AllocateIoHandle is called, if any *)
TargetObject(t) ==
    CASE t = "CURRENT_INPUT" -> "INPUT"
      [] t = "CURRENT_OUTPUT" -> "OUTPUT"
      [] t = "NEW_OUTPUT" -> "NEW_OUTPUT"
      [] OTHER -> "none"

CO_Allocate(w) ==
    /\ pc[w] = "co_alloc"
    /\ Scheduled
    /\ LET k == TargetObject(msg[w].type) IN
       IF k = "none"
       THEN /\ Status' = [Status EXCEPT ![w] = STATUS_INVALID_PARAMETER]
            /\ Goto(w, "co_fail")
            /\ UNCHANGED <<handle, objRef, out>>
       ELSE \E ok \in BOOLEAN :
              /\ Status' = [Status EXCEPT ![w] = IF ok THEN STATUS_SUCCESS
                                                     ELSE STATUS_SHARING_VIOLATION]
              /\ handle' = [handle EXCEPT ![w] = IF ok THEN k ELSE @]
              /\ objRef' = [objRef EXCEPT ![k] = IF ok THEN @ + 1 ELSE @]
              /\ out' = [out EXCEPT ![w].alloc = Outcome(ok)]
              /\ Goto(w, IF ok THEN "co_complete" ELSE "co_fail")
    /\ UNCHANGED <<msg, ProcessData, Cac, hres, lockOwner, launch, Flags, hInputEvent,
                   ProcessHandleList, history, driverHandles, nextPid, terminated, trace,
                   snap, handoffConfirmed>>

(* if (!NT_SUCCESS(Status)) { UnlockConsole(); SetReplyStatus(Status); return pMessage; } *)
ReturnWithoutUnlock(w) == UNCHANGED <<lockOwner, trace>>

UnlockOnFailure(w) == UnlockConsole(w) /\ Ev(w, "UnlockConsole")

CO_Fail(w) ==
    /\ pc[w] = "co_fail"
    /\ Scheduled
    /\ UnlockOnFailure(w)
    /\ UNCHANGED handoffConfirmed
    /\ msg' = [msg EXCEPT ![w].replyStatus = Status[w], ![w].ret = "msg"]
    /\ Goto(w, "done")
    /\ UNCHANGED <<Status, ProcessData, Cac, handle, hres, launch, Flags, hInputEvent,
                   ProcessHandleList, history, objRef, driverHandles, nextPid, terminated,
                   snap, out>>

(* SetReplyStatus(STATUS_SUCCESS); SetReplyInformation(PutHandle(handle.get())); *)
(* if (SUCCEEDED(CompleteIo(...))) handle.release();                             *)
ReleasedRegardless(ok, h) == "released"

HandleAfterCompleteIo(ok, h) == IF ok THEN "released" ELSE h

CO_Complete(w) ==
    /\ pc[w] = "co_complete"
    /\ Scheduled
    /\ \E ok \in BOOLEAN :
         /\ msg' = [msg EXCEPT ![w].replyStatus = STATUS_SUCCESS, ![w].replyInfo = TRUE,
                               ![w].completeCalls = @ + 1, ![w].delivered = ok]
         /\ driverHandles' = [driverHandles EXCEPT ![handle[w]] = IF ok THEN @ + 1 ELSE @]
         /\ handle' = [handle EXCEPT ![w] = HandleAfterCompleteIo(ok, @)]
         /\ out' = [out EXCEPT ![w].complete = Outcome(ok)]
    /\ Ev(w, "CompleteIo")
    /\ Goto(w, "co_unlock")
    /\ UNCHANGED <<Status, ProcessData, Cac, hres, lockOwner, launch, Flags, hInputEvent,
                   ProcessHandleList, history, objRef, nextPid, terminated, snap, handoffConfirmed>>

(* UnlockConsole(); *)
CO_Unlock(w) ==
    /\ pc[w] = "co_unlock"
    /\ Scheduled
    /\ UnlockConsole(w)
    /\ UNCHANGED handoffConfirmed
    /\ Ev(w, "UnlockConsole")
    /\ Goto(w, "co_exit")
    /\ UNCHANGED <<msg, Status, ProcessData, Cac, handle, hres, launch, Flags, hInputEvent,
                   ProcessHandleList, history, objRef, driverHandles, nextPid, terminated,
                   snap, out>>

(* return nullptr; the unique_ptr destroys a handle it still owns. *)
CO_Exit(w) ==
    /\ pc[w] = "co_exit"
    /\ ~terminated
    /\ LET owned == handle[w] \in ObjKinds IN
         /\ objRef' = IF owned THEN [objRef EXCEPT ![handle[w]] = @ - 1] ELSE objRef
         /\ handle' = [handle EXCEPT ![w] = IF owned THEN "destroyed" ELSE @]
    /\ msg' = [msg EXCEPT ![w].ret = "null"]
    /\ Goto(w, "done")
    /\ UNCHANGED <<Status, ProcessData, Cac, hres, lockOwner, launch, Flags, hInputEvent,
                   ProcessHandleList, history, driverHandles, nextPid, terminated, trace,
                   snap, out, handoffConfirmed>>

(* -------------------------- ConsoleCloseObject ------------------------- *)
(* A close request arrives naming a handle the transport layer owns. *)
CL_Lock(w) ==
    /\ pc[w] = "idle"
    /\ Scheduled
    /\ LockConsole(w)
    /\ \E k \in ObjKinds :
         /\ driverHandles[k] > 0
         /\ driverHandles' = [driverHandles EXCEPT ![k] = @ - 1]
         /\ msg' = [msg EXCEPT ![w] = [NoMsg EXCEPT !.kind = "close", !.type = k]]
    /\ TakeSnap(w)
    /\ Goto(w, "cl_delete")
    /\ UNCHANGED <<Status, ProcessData, Cac, handle, hres, launch, Flags, hInputEvent,
                   ProcessHandleList, history, objRef, nextPid, terminated,
                   trace, out, handoffConfirmed>>

(* delete pMessage->GetObjectHandle(); pMessage->SetReplyStatus(STATUS_SUCCESS); *)
CL_Delete(w) ==
    /\ pc[w] = "cl_delete"
    /\ Scheduled
    /\ objRef' = [objRef EXCEPT ![msg[w].type] = @ - 1]
    /\ msg' = [msg EXCEPT ![w].replyStatus = STATUS_SUCCESS]
    /\ Goto(w, "cl_unlock")
    /\ UNCHANGED <<Status, ProcessData, Cac, handle, hres, lockOwner, launch, Flags,
                   hInputEvent, ProcessHandleList, history, driverHandles, nextPid,
                   terminated, ghostVars>>

(* UnlockConsole(); return pMessage; *)
CL_Unlock(w) ==
    /\ pc[w] = "cl_unlock"
    /\ Scheduled
    /\ UnlockConsole(w)
    /\ UNCHANGED handoffConfirmed
    /\ msg' = [msg EXCEPT ![w].ret = "msg"]
    /\ Ev(w, "UnlockConsole")
    /\ Goto(w, "done")
    /\ UNCHANGED <<Status, ProcessData, Cac, handle, hres, launch, Flags, hInputEvent,
                   ProcessHandleList, history, objRef, driverHandles, nextPid, terminated,
                   snap, out>>

(* -------------------- ConsoleClientDisconnectRoutine ------------------- *)
(* The routine takes no lock and makes one call that changes shared state, *)
(* RemoveConsole, so the whole routine is one step.  In order:             *)
(*   if (pNotifier) pNotifier->NotifyConsoleEndApplicationEvent(pid);      *)
(*   Tracing::s_TraceConsoleAttachDetach(pProcessData, false);             *)
(*   LOG_IF_FAILED(RemoveConsole(pProcessData));  -- the teardown          *)
(*     collaborator closes the process's handles, frees its history slot   *)
(*     and its record;                                                     *)
(*   pMessage->SetReplyStatus(STATUS_SUCCESS); return pMessage;            *)
TeardownBeforeTrace(notifier) ==
    (IF notifier THEN <<"NotifyConsoleEndApplicationEvent">> ELSE <<>>)
      \o <<"RemoveConsole", "TraceDetach", "SetReplyStatus">>

DisconnectEvents(notifier) ==
    (IF notifier THEN <<"NotifyConsoleEndApplicationEvent">> ELSE <<>>)
      \o <<"TraceDetach", "RemoveConsole", "SetReplyStatus">>

ConsoleClientDisconnectRoutine(w) ==
    /\ pc[w] = "idle"
    /\ Scheduled
    /\ \E p \in Pids, ok \in BOOLEAN :
         /\ ProcessHandleList[p].present
         /\ \A v \in Workers : msg[v].pid # p
         /\ msg' = [msg EXCEPT ![w] = [NoMsg EXCEPT !.kind = "disconnect", !.pid = p,
                                                    !.replyStatus = STATUS_SUCCESS,
                                                    !.ret = "msg"]]
         /\ ProcessData' = [ProcessData EXCEPT ![w] = p]
         /\ history' = IF ok THEN s_Free(history, p) ELSE history
         /\ ProcessHandleList' = IF ok THEN FreeProcessData(ProcessHandleList, p)
                                       ELSE ProcessHandleList
         /\ objRef' = IF ok THEN RefsAfterFree(objRef, ProcessHandleList[p]) ELSE objRef
         /\ out' = [out EXCEPT ![w].remove = Outcome(ok),
                               ![w].frees = IF ok THEN @ + 1 ELSE @]
    /\ trace' = [trace EXCEPT ![w] = DisconnectEvents(launch.pNotifier)]
    /\ TakeSnap(w)
    /\ Goto(w, "done")
    /\ UNCHANGED <<Status, Cac, handle, hres, lockOwner, launch, Flags, hInputEvent,
                   driverHandles, nextPid, terminated, handoffConfirmed>>

(* ---------------------------- specification ---------------------------- *)
Next ==
    \E w \in Workers :
        \/ CR_Lock(w) \/ CR_InitializeConnectInfo(w)
        \/ CR_ShouldAttemptHandoff(w)
        \/ HO_Activate(w) \/ HO_GetServerHandle(w) \/ HO_CreatePipe(w)
        \/ HO_DuplicateHandle(w) \/ HO_EstablishHandoff(w) \/ HO_ReleaseTransferred(w)
        \/ HO_CreateListener(w) \/ HO_StartListener(w) \/ HO_Unlock(w) \/ HO_Wait(w)
        \/ HO_ExitProcess(w) \/ HO_Catch(w)
        \/ CR_AllocProcessData(w) \/ CR_SetRoot(w) \/ CR_Notify(w) \/ CR_AllocateConsole(w)
        \/ CR_HistoryAllocate(w) \/ CR_Focus(w) \/ CR_AllocInputHandle(w)
        \/ CR_AllocOutputHandle(w) \/ CR_Complete(w) \/ CR_Trace(w) \/ CR_Cleanup(w)
        \/ CO_Lock(w) \/ CO_Resolve(w) \/ CO_Allocate(w) \/ CO_Fail(w)
        \/ CO_Complete(w) \/ CO_Unlock(w) \/ CO_Exit(w)
        \/ CL_Lock(w) \/ CL_Delete(w) \/ CL_Unlock(w)
        \/ ConsoleClientDisconnectRoutine(w)
        \/ Return(w)

Spec == Init /\ [][Next]_vars

(* ------------- connection requests under every launch ------------------ *)
(* One worker handling connection requests, one after the other, where the *)
(* server was launched in any way and the client connects with any         *)
(* descriptor: every combination of what _shouldAttemptHandoff reads.      *)
LaunchInputs == [featureEnabled : BOOLEAN, interactive : BOOLEAN, forceNoHandoff : BOOLEAN,
                 createServerHandle : BOOLEAN, headless : BOOLEAN,
                 clsidRegistered : BOOLEAN, handoffTarget : BOOLEAN,
                 pNotifier : {TRUE}]

InitHandoff == InitFrom(LaunchInputs)

HO_InitializeConnectInfo(w) == ConsoleInitializeConnectInfo(w, CacInputs)

NextHandoff ==
    \E w \in {1} :
        \/ CR_Lock(w) \/ HO_InitializeConnectInfo(w)
        \/ CR_ShouldAttemptHandoff(w)
        \/ HO_Activate(w) \/ HO_GetServerHandle(w) \/ HO_CreatePipe(w)
        \/ HO_DuplicateHandle(w) \/ HO_EstablishHandoff(w) \/ HO_ReleaseTransferred(w)
        \/ HO_CreateListener(w) \/ HO_StartListener(w) \/ HO_Unlock(w) \/ HO_Wait(w)
        \/ HO_ExitProcess(w) \/ HO_Catch(w)
        \/ CR_AllocProcessData(w) \/ CR_SetRoot(w) \/ CR_Notify(w) \/ CR_AllocateConsole(w)
        \/ CR_HistoryAllocate(w) \/ CR_Focus(w) \/ CR_AllocInputHandle(w)
        \/ CR_AllocOutputHandle(w) \/ CR_Complete(w) \/ CR_Trace(w) \/ CR_Cleanup(w)
        \/ Return(w)

SpecHandoff == InitHandoff /\ [][NextHandoff]_vars


(* ======================================================================= *)
(*                               Properties                                *)
(* ======================================================================= *)
ConnectDone(w) == pc[w] = "done" /\ msg[w].kind = "connect"

PresentPids == {p \in Pids : ProcessHandleList[p].present}

NoStepFailed(o) ==
    /\ o.alloc # "fail" /\ o.allocConsole # "fail" /\ o.history # "fail"
    /\ o.inH # "fail" /\ o.outH # "fail" /\ o.complete # "fail"

(* What the dispatcher leaves behind for a connection request. *)
ConnectResult(w) ==
    [ret |-> msg[w].ret, replyStatus |-> msg[w].replyStatus,
     record |-> ProcessHandleList[msg[w].pid], history |-> msg[w].pid \in history]

(* C1. Once some EstablishHandoff call has returned success, no step of any  *)
(* worker allocates a ProcessRecord, runs the Session Initializer or sets    *)
(* INITIALIZED.                                                              *)
C1_DelegationIrrevocable ==
    [][handoffConfirmed =>
         /\ \A p \in Pids : ProcessHandleList'[p].present => ProcessHandleList[p].present
         /\ \A w \in Workers : out'[w].allocConsole \in {out[w].allocConsole, "na"}
         /\ (Flags' => Flags)]_vars

(* C2. When a handoff attempt has failed at any step, the global state at    *)
(* the start of local bring-up equals the state before the attempt (wake     *)
(* event, INITIALIZED, process registry, object registry), and every handle  *)
(* opened for the attempt has been released exactly once.                    *)
ReleasedOnce(state, count) == (state = "none" /\ count = 0) \/ (state = "closed" /\ count = 1)

C2_FailedHandoffRestoresState ==
    \A w \in Workers :
        (pc[w] = "cr_alloc" /\ hres[w].attempted) =>
            /\ hInputEvent = snap[w].hInputEvent
            /\ hInputEvent = "held"
            /\ Flags = snap[w].Flags
            /\ PresentPids = snap[w].pids
            /\ history = snap[w].history
            /\ objRef = snap[w].objRef
            /\ ReleasedOnce(hres[w].theirSide, hres[w].relTheir)
            /\ ReleasedOnce(hres[w].ourSide, hres[w].relOur)
            /\ ReleasedOnce(hres[w].ourProcess, hres[w].relProc)

(* C3. A connection request whose handoff attempt failed ends with the same  *)
(* reply status, return value, ProcessRecord and handles as local hosting    *)
(* from the same state with the same collaborator outcomes and no attempt.   *)
LocalHosting(initialized, o) ==
    LET gone(ret, status) == [ret |-> ret, replyStatus |-> status, record |-> Absent,
                              history |-> FALSE]
        rec(inH, outH) == [present |-> TRUE, root |-> ~initialized, inH |-> inH,
                           outH |-> outH]
    IN  CASE o.alloc = "na" -> gone("unreachable", UNSET)
          [] o.alloc = "fail" -> gone("msg", STATUS_NO_MEMORY)
          [] o.alloc = "ok" /\ ~initialized /\ o.allocConsole # "ok" ->
                 gone("msg", STATUS_UNSUCCESSFUL)
          [] OTHER ->
                 IF o.history # "ok"
                 THEN [ret |-> "msg", replyStatus |-> UNSET, record |-> rec(FALSE, FALSE),
                       history |-> FALSE]
                 ELSE IF o.inH # "ok" \/ o.outH # "ok"
                 THEN gone("msg", STATUS_SHARING_VIOLATION)
                 ELSE IF o.complete # "ok"
                 THEN gone("null", STATUS_SUCCESS)
                 ELSE [ret |-> "null", replyStatus |-> STATUS_SUCCESS,
                       record |-> rec(TRUE, TRUE), history |-> TRUE]

C3_FailedHandoffInvisible ==
    \A w \in Workers :
        (ConnectDone(w) /\ hres[w].attempted) =>
            ConnectResult(w) = LocalHosting(snap[w].Flags, out[w])

C3_Witness ==
    \E w \in Workers :
        /\ ConnectDone(w) /\ hres[w].attempted /\ ~hres[w].established
        /\ msg[w].delivered /\ ProcessHandleList[msg[w].pid].root

(* C4. When the command-history association fails, the connection goes on to *)
(* focus computation and handle allocation, and when those succeed the reply *)
(* is success and the ProcessRecord is kept.                                 *)
C4_HistoryFailureNonFatal ==
    \A w \in Workers :
        (ConnectDone(w) /\ out[w].history = "fail") =>
            /\ out[w].inH # "na"
            /\ (out[w].inH = "ok" /\ out[w].outH = "ok" /\ out[w].complete = "ok") =>
                   /\ msg[w].replyStatus = STATUS_SUCCESS
                   /\ ProcessHandleList[msg[w].pid].present

(* C5. A connection request that ends without a delivered success reply      *)
(* leaves no ProcessRecord, no handle and no history slot for its process.   *)
C5_FailedConnectRolledBack ==
    \A w \in Workers :
        (ConnectDone(w) /\ ~(msg[w].delivered /\ msg[w].replyStatus = STATUS_SUCCESS)) =>
            /\ ProcessHandleList[msg[w].pid] = Absent
            /\ msg[w].pid \notin history

(* C6. Whenever a dispatcher returns the reply message to its caller, a      *)
(* reply status was set on the message during the call.                      *)
C6_ReplyStatusSet ==
    \A w \in Workers :
        (pc[w] = "done" /\ msg[w].ret = "msg") => msg[w].replyStatus # UNSET

(* C7 as stated. Every finished request was either returned for inline       *)
(* completion, or delivered by the dispatcher itself, which returns nothing. *)
C7_ReturnedOrDelivered ==
    \A w \in Workers :
        pc[w] = "done" =>
            \/ (msg[w].ret = "msg" /\ ~msg[w].delivered)
            \/ (msg[w].ret = "null" /\ msg[w].delivered)

(* C7 as amended. Every finished request was either returned for inline      *)
(* completion with the transport's completion operation never called, or     *)
(* handed by the dispatcher to the completion operation exactly once (which  *)
(* may fail to deliver it) with nothing returned.                            *)
C7_ReturnedOrCompletedOnce ==
    \A w \in Workers :
        pc[w] = "done" =>
            \/ (msg[w].ret = "msg" /\ msg[w].completeCalls = 0 /\ ~msg[w].delivered)
            \/ (msg[w].ret = "null" /\ msg[w].completeCalls = 1)

C7_Witness ==
    \E w \in Workers :
        /\ pc[w] = "done" /\ msg[w].ret = "null" /\ msg[w].completeCalls = 1
        /\ ~msg[w].delivered

(* C8. INITIALIZED is never cleared, and the Session Initializer is only     *)
(* ever invoked in a state where INITIALIZED is not set (so never again once *)
(* it is set).                                                               *)
InitializerRuns(w) ==
    out'[w].allocConsole # out[w].allocConsole /\ out'[w].allocConsole # "na"

C8_InitializedOnce ==
    [][/\ (Flags => Flags')
       /\ \A w \in Workers : InitializerRuns(w) => ~Flags]_vars

C8_Witness ==
    \E w \in Workers :
        /\ ConnectDone(w) /\ snap[w].Flags /\ msg[w].delivered
        /\ out[w].allocConsole = "na" /\ Flags

(* C9 as stated. The transition to INITIALIZED happens only while handling   *)
(* the first connection request the server received.                         *)
C9_OnlyFirstRequestInitializes ==
    [][(~Flags /\ Flags') =>
         \E w \in Workers : pc[w] = "cr_allocconsole" /\ msg[w].pid = 1]_vars

(* C9 as amended. The transition to INITIALIZED happens at most once, and    *)
(* only in the step of a connection request whose Session Initializer run    *)
(* succeeds; a request whose run fails leaves the flag as it was.            *)
C9_TransitionOnSuccessfulInit ==
    [][/\ (Flags => Flags')
       /\ (~Flags /\ Flags') =>
              \E w \in Workers : /\ pc[w] = "cr_allocconsole" /\ msg[w].kind = "connect"
                                 /\ out[w].allocConsole = "na"
                                 /\ out'[w].allocConsole = "ok"
       /\ \A w \in Workers :
              (out[w].allocConsole = "na" /\ out'[w].allocConsole = "fail") =>
                  Flags' = Flags]_vars

C9_Witness ==
    \E w \in Workers :
        /\ msg[w].kind = "connect" /\ msg[w].pid = 2 /\ pc[w] = "cr_history"
        /\ out[w].allocConsole = "ok" /\ Flags

(* C10. A connection request with a valid descriptor, no handoff attempt and *)
(* no failing collaborator step replies success, leaves the session          *)
(* INITIALIZED and adds exactly one ProcessRecord, with an input and an      *)
(* output handle, that is root iff the session was not INITIALIZED when the  *)
(* handler entered.                                                          *)
C10_LocalConnectSucceeds ==
    \A w \in Workers :
        (/\ ConnectDone(w) /\ out[w].connectInfo = "ok" /\ ~hres[w].attempted
         /\ NoStepFailed(out[w])) =>
            LET p == msg[w].pid IN
            /\ msg[w].replyStatus = STATUS_SUCCESS
            /\ msg[w].delivered
            /\ Flags
            /\ PresentPids \ snap[w].pids = {p}
            /\ ProcessHandleList[p].inH /\ ProcessHandleList[p].outH
            /\ p \in history
            /\ ProcessHandleList[p].root = ~snap[w].Flags

C10_Witness ==
    \E w \in Workers :
        /\ ConnectDone(w) /\ out[w].connectInfo = "ok" /\ ~hres[w].attempted
        /\ NoStepFailed(out[w])
        /\ snap[w].Flags /\ ~ProcessHandleList[msg[w].pid].root
        /\ ProcessHandleList[msg[w].pid].inH


(* C11. The handoff predicate is a pure conjunction: under every launch and  *)
(* every connect descriptor, a connection request enters the handoff attempt *)
(* (handler activation, EstablishHandoff) exactly when no blocking condition *)
(* holds; any single blocking condition keeps it out, whatever the others.   *)
BlockingConditions(globals, initialized, cac) ==
    {c \in {"disabled", "notInteractive", "forceNoHandoff", "createServerHandle",
            "initialized", "attachOnly", "headless", "notRegistered", "handoffTarget",
            "noVisibleWindow", "hiddenOrMinimized"} :
        \/ c = "disabled" /\ ~globals.featureEnabled
        \/ c = "notInteractive" /\ ~globals.interactive
        \/ c = "forceNoHandoff" /\ globals.forceNoHandoff
        \/ c = "createServerHandle" /\ globals.createServerHandle
        \/ c = "initialized" /\ initialized
        \/ c = "attachOnly" /\ ~cac.ConsoleApp
        \/ c = "headless" /\ globals.headless
        \/ c = "notRegistered" /\ ~globals.clsidRegistered
        \/ c = "handoffTarget" /\ globals.handoffTarget
        \/ c = "noVisibleWindow" /\ ~cac.deservesVisibleWindow
        \/ c = "hiddenOrMinimized" /\ cac.useShowWindow /\ cac.showWindow \in HideOrMinimize}

HandoffSteps == {"ho_activate", "ho_server", "ho_pipe", "ho_dup", "ho_establish",
                 "ho_release", "ho_listener", "ho_start", "ho_unlock", "ho_wait",
                 "ho_exit", "exited", "ho_catch"}

PastPredicate(w) ==
    msg[w].kind = "connect" /\ pc[w] \notin {"idle", "cr_connectinfo", "cr_should"}
      /\ out[w].connectInfo = "ok"

C11_HandoffPredicateConjunction ==
    \A w \in Workers :
        LET blocked == BlockingConditions(launch, snap[w].Flags, Cac[w]) # {} IN
        /\ PastPredicate(w) => (hres[w].attempted <=> ~blocked)
        /\ (pc[w] \in HandoffSteps \/ hres[w].established) => ~blocked
        /\ (PastPredicate(w) /\ blocked) =>
               /\ pc[w] \notin HandoffSteps
               /\ \A i \in 1..Len(trace[w]) :
                      trace[w][i] \notin {"EstablishHandoff", "HandoffFailed"}

C11_Witness ==
    \E w \in Workers :
        /\ pc[w] = "cr_alloc" /\ ~hres[w].attempted
        /\ BlockingConditions(launch, snap[w].Flags, Cac[w]) = {"hiddenOrMinimized"}
        /\ Cac[w].showWindow = "SW_SHOWMINNOACTIVE"


(* C12. For every CreateObject with a generic type hint and every access     *)
(* mask: read-only (after masking with read|write) resolves to current-input,*)
(* write-only to current-output, and any other combination replies with a    *)
(* validation error and allocates no handle; so does an unknown type hint.   *)
CreateDone(w) == pc[w] = "done" /\ msg[w].kind = "create"

RequestedType(w) == trace[w][1]

MaskedAccess(w) == msg[w].access \cap {"GENERIC_READ", "GENERIC_WRITE"}

ValidationError(w) ==
    /\ msg[w].replyStatus = STATUS_INVALID_PARAMETER /\ msg[w].ret = "msg"
    /\ out[w].alloc = "na" /\ handle[w] = "none" /\ msg[w].completeCalls = 0

C12_GenericResolution ==
    \A w \in Workers :
        /\ (msg[w].kind = "create" /\ pc[w] = "co_complete"
              /\ RequestedType(w) = "GENERIC") =>
               \/ MaskedAccess(w) = {"GENERIC_READ"} /\ handle[w] = "INPUT"
               \/ MaskedAccess(w) = {"GENERIC_WRITE"} /\ handle[w] = "OUTPUT"
        /\ (CreateDone(w) /\ RequestedType(w) = "GENERIC") =>
               CASE MaskedAccess(w) = {"GENERIC_READ"} ->
                        msg[w].type = "CURRENT_INPUT" /\ out[w].alloc # "na"
                 [] MaskedAccess(w) = {"GENERIC_WRITE"} ->
                        msg[w].type = "CURRENT_OUTPUT" /\ out[w].alloc # "na"
                 [] OTHER -> ValidationError(w)
        /\ (CreateDone(w) /\ RequestedType(w) = "UNKNOWN") => ValidationError(w)

C12_Witness ==
    \E w \in Workers :
        /\ CreateDone(w) /\ RequestedType(w) = "GENERIC"
        /\ msg[w].access = {"GENERIC_READ", "GENERIC_WRITE", "GENERIC_EXECUTE"}
        /\ msg[w].replyStatus = STATUS_INVALID_PARAMETER


(* C13. After a CreateObject has returned, the handle it allocated is either *)
(* owned by the transport layer, and then the success reply was delivered, or*)
(* destroyed: the count of client handles on the target object is one more   *)
(* than before the call on a delivered success and the same as before on     *)
(* every failure (validation, access conflict, failed delivery).             *)
ClientRefsAdded(w) ==
    [k \in ObjKinds |->
        ClientRefs(objRef, ProcessHandleList)[k] - snap[w].clientRefs[k]]

C13_HandleOwnedOrDestroyed ==
    \A w \in Workers :
        CreateDone(w) =>
            /\ handle[w] \in {"none", "released", "destroyed"}
            /\ handle[w] = "released" <=> msg[w].delivered
            /\ msg[w].delivered =>
                   /\ msg[w].replyStatus = STATUS_SUCCESS
                   /\ ClientRefsAdded(w) =
                          [k \in ObjKinds |-> IF k = TargetObject(msg[w].type) THEN 1 ELSE 0]
            /\ ~msg[w].delivered => ClientRefsAdded(w) = [k \in ObjKinds |-> 0]
            /\ handle[w] = "destroyed" <=> (out[w].alloc = "ok" /\ out[w].complete = "fail")

C13_Witness ==
    \E w \in Workers :
        /\ CreateDone(w) /\ handle[w] = "destroyed" /\ out[w].complete = "fail"
        /\ msg[w].type = "CURRENT_OUTPUT" /\ objRef["OUTPUT"] > 0


(* C14. A connection request whose connect descriptor fails validation       *)
(* replies with the validation error and changes nothing else: the handoff   *)
(* predicate is not evaluated, no handoff step runs, no ProcessRecord is     *)
(* allocated, no collaborator is called, INITIALIZED and the wake event are  *)
(* as they were, and the lock has been released.                             *)
C14_InvalidDescriptorNoEffect ==
    \A w \in Workers :
        (ConnectDone(w) /\ out[w].connectInfo = "fail") =>
            /\ msg[w].replyStatus = STATUS_INVALID_PARAMETER
            /\ msg[w].ret = "msg" /\ msg[w].completeCalls = 0
            /\ ~hres[w].attempted /\ hres[w] = NoRes
            /\ out[w] = [NoOut EXCEPT !.connectInfo = "fail"]
            /\ ProcessData[w] = NoProcess
            /\ ProcessHandleList[msg[w].pid] = Absent
            /\ msg[w].pid \notin history
            /\ PresentPids \subseteq snap[w].pids
            /\ trace[w] = <<"UnlockConsole">>
            /\ Flags = snap[w].Flags
            /\ hInputEvent = snap[w].hInputEvent
            /\ lockOwner # w

C14_Witness ==
    \E w \in Workers :
        /\ ConnectDone(w) /\ out[w].connectInfo = "fail"
        /\ snap[w].Flags /\ snap[w].pids # {} /\ PresentPids = snap[w].pids


(* C15. ClientDisconnect for an existing ProcessRecord always replies        *)
(* success, with or without an accessibility notifier and whether or not the *)
(* teardown collaborator fails, and its steps run in the order: accessibility*)
(* end-of-application notification, detach trace, teardown, reply.           *)
DisconnectDone(w) == pc[w] = "done" /\ msg[w].kind = "disconnect"

Position(s, e) == IF \E i \in 1..Len(s) : s[i] = e
                  THEN CHOOSE i \in 1..Len(s) : s[i] = e
                  ELSE 0

Occurrences(s, e) == Cardinality({i \in 1..Len(s) : s[i] = e})

C15_DisconnectAlwaysSucceeds ==
    \A w \in Workers :
        DisconnectDone(w) =>
            LET t == trace[w] IN
            /\ msg[w].replyStatus = STATUS_SUCCESS /\ msg[w].ret = "msg"
            /\ out[w].remove \in {"ok", "fail"}
            /\ Occurrences(t, "TraceDetach") = 1
            /\ Occurrences(t, "RemoveConsole") = 1
            /\ Occurrences(t, "SetReplyStatus") = 1
            /\ Occurrences(t, "NotifyConsoleEndApplicationEvent") =
                   (IF launch.pNotifier THEN 1 ELSE 0)
            /\ Position(t, "NotifyConsoleEndApplicationEvent") < Position(t, "TraceDetach")
            /\ Position(t, "TraceDetach") < Position(t, "RemoveConsole")
            /\ Position(t, "RemoveConsole") < Position(t, "SetReplyStatus")

C15_Witness ==
    \E w \in Workers :
        /\ DisconnectDone(w) /\ ~launch.pNotifier /\ out[w].remove = "fail"
        /\ msg[w].replyStatus = STATUS_SUCCESS


(* C16 as stated. During a connection request the application-start and the  *)
(* accessibility-start notifications are sent only for a genuine application *)
(* connect; for an attach-only connection neither is sent.                   *)
PastNotify(w) ==
    /\ msg[w].kind = "connect" /\ out[w].alloc = "ok"
    /\ pc[w] \notin {"cr_root", "cr_notify"}

C16_NotificationsOnlyForApplicationConnect ==
    \A w \in Workers :
        (msg[w].kind = "connect" /\ out[w].connectInfo = "ok" /\ ~Cac[w].ConsoleApp) =>
            /\ Occurrences(trace[w], "NotifyConsoleApplication") = 0
            /\ Occurrences(trace[w], "NotifyConsoleStartApplicationEvent") = 0

(* C16 as amended. Once the ProcessRecord is allocated, the application-start*)
(* notification is sent exactly when the request is a genuine application    *)
(* connect, and the accessibility-start notification is sent exactly when an *)
(* accessibility notifier is available, attach-only connections included;    *)
(* no notification is sent by a request that allocated no ProcessRecord.     *)
C16_NotificationsByKind ==
    \A w \in Workers :
        msg[w].kind = "connect" =>
            LET apps == Occurrences(trace[w], "NotifyConsoleApplication")
                accs == Occurrences(trace[w], "NotifyConsoleStartApplicationEvent")
            IN  IF PastNotify(w)
                THEN /\ apps = (IF Cac[w].ConsoleApp THEN 1 ELSE 0)
                     /\ accs = (IF launch.pNotifier THEN 1 ELSE 0)
                ELSE apps = 0 /\ accs = 0

C16_Witness ==
    \E w \in Workers :
        /\ PastNotify(w) /\ ~Cac[w].ConsoleApp /\ ConnectDone(w) /\ msg[w].delivered
        /\ Occurrences(trace[w], "NotifyConsoleStartApplicationEvent") = 1
        /\ Occurrences(trace[w], "NotifyConsoleApplication") = 0


(* C17. Every step of CreateObject, CloseObject, ConnectionRequest and       *)
(* ClientDisconnect that reads or changes session state (process registry,  *)
(* history, object registry, INITIALIZED, wake event) or calls a collaborator*)
(* is taken by the worker that holds the session lock, so no two workers are *)
(* inside these actions at once.                                             *)
SessionState == <<ProcessHandleList, history, objRef, Flags, hInputEvent>>

CollaboratorCalls ==
    {"NotifyConsoleApplication", "NotifyConsoleStartApplicationEvent",
     "NotifyConsoleEndApplicationEvent", "ConsoleAllocateConsole",
     "ModifyConsoleProcessFocus", "TraceAttach", "TraceAttachOfFreed", "TraceDetach",
     "RemoveConsole", "EstablishHandoff"}

IsCollaboratorCall(e) == e \in CollaboratorCalls

CallsMade(w) == Len(SelectSeq(trace[w], IsCollaboratorCall))

CallsMadeNext(w) == Len(SelectSeq(trace'[w], IsCollaboratorCall))

C17_StateTouchedUnderLock ==
    [][\A w \in Workers :
          (pc'[w] # pc[w] /\ (SessionState' # SessionState \/ CallsMadeNext(w) > CallsMade(w)))
              => lockOwner = w]_vars


(* C18. On every exit path of CreateObject, CloseObject and ConnectionRequest*)
(* the lock taken at entry is released exactly once: a worker inside one of  *)
(* these handlers holds the lock exactly as long as it has not released it,  *)
(* it has released it once when the dispatcher has returned or when it waits *)
(* to terminate, and it never releases a lock it does not hold.              *)
LockingRequest(w) == msg[w].kind \in {"create", "close", "connect"}

Unlocks(w) == Occurrences(trace[w], "UnlockConsole")

LeftHandler(w) == pc[w] \in {"done", "co_exit", "ho_wait", "ho_exit", "exited"}

C18_LockReleasedExactlyOnce ==
    \A w \in Workers :
        LockingRequest(w) =>
            /\ Unlocks(w) <= 1
            /\ lockOwner = w <=> Unlocks(w) = 0
            /\ LeftHandler(w) => (Unlocks(w) = 1 /\ lockOwner # w)

C18_Witness ==
    \E w \in Workers :
        /\ ConnectDone(w) /\ hres[w].attempted /\ Unlocks(w) = 1 /\ lockOwner # w
        /\ \E v \in Workers : pc[v] = "idle"


(* C19. On the handoff-success path the events occur in the order:           *)
(* EstablishHandoff returns success, the local references to the transferred *)
(* resources are released, the signal listener is started, the session lock  *)
(* is released, the wait for the representative process returns, the process *)
(* terminates.  The lock is not released before the listener has started and *)
(* is not held during the wait, and no listener is created or started for a  *)
(* handoff that was not confirmed.                                           *)
Happened(w, e) == Occurrences(trace[w], e) > 0

Before(w, a, b) == Happened(w, a) /\ (Happened(w, b) => Position(trace[w], a) < Position(trace[w], b))

OnHandoffPath(w) == pc[w] \in HandoffSteps \ {"ho_catch"}

C19_HandoffSuccessOrder ==
    \A w \in Workers :
        /\ (OnHandoffPath(w) /\ Happened(w, "ReleaseTransferred")) =>
               Before(w, "EstablishHandoff", "ReleaseTransferred")
        /\ (hres[w].ourSide = "listener" \/ Happened(w, "ListenerStarted")) =>
               /\ hres[w].established
               /\ Before(w, "EstablishHandoff", "ReleaseTransferred")
               /\ Before(w, "ReleaseTransferred", "ListenerStarted")
        /\ (OnHandoffPath(w) /\ Happened(w, "UnlockConsole")) =>
               Before(w, "ListenerStarted", "UnlockConsole")
        /\ pc[w] \in {"ho_wait", "ho_exit", "exited"} =>
               /\ lockOwner # w
               /\ Before(w, "UnlockConsole", "WaitReturned")
        /\ pc[w] = "exited" =>
               /\ terminated
               /\ trace[w] = <<"EstablishHandoff", "ReleaseTransferred", "ListenerStarted",
                               "UnlockConsole", "WaitReturned", "ExitProcess">>
        /\ OnHandoffPath(w) =>
               lockOwner = w <=> pc[w] \notin {"ho_wait", "ho_exit", "exited"}

C19_Witness ==
    \E w \in Workers :
        /\ pc[w] = "exited" /\ terminated /\ hres[w].established
        /\ Happened(w, "ExitProcess")


(* C20. The local references to the transferred resources (wake event,       *)
(* remote end of the signal channel, duplicated own-process handle) are      *)
(* handed over only after EstablishHandoff has returned success; on every    *)
(* branch of the attempt each scoped resource is released exactly once,      *)
(* never twice and never leaked (the local end of the channel is owned by    *)
(* the running listener on the success path); and the wake event is never    *)
(* released when no transfer was confirmed.                                  *)
AttemptOver(w) == hres[w].attempted /\ msg[w].kind = "connect" /\ pc[w] \notin HandoffSteps

Terminating(w) == pc[w] \in {"ho_unlock", "ho_wait", "ho_exit"}

C20_TransferredResourcesReleasedOnce ==
    /\ hInputEvent = "null" => handoffConfirmed
    /\ \A w \in Workers :
        /\ hres[w].relTheir <= 1 /\ hres[w].relOur <= 1 /\ hres[w].relProc <= 1
        /\ hres[w].relClient <= 1 /\ hres[w].relWake <= 1
        /\ Happened(w, "ReleaseTransferred") =>
               (hres[w].established /\ Before(w, "EstablishHandoff", "ReleaseTransferred"))
        /\ hres[w].relWake = 1 => hres[w].established
        /\ (hres[w].attempted /\ ~hres[w].established) =>
               /\ hres[w].relWake = 0
               /\ hres[w].theirSide \in {"open", "closed"} => ~Happened(w, "ReleaseTransferred")
        /\ (AttemptOver(w) \/ pc[w] = "exited") =>
               /\ ReleasedOnce(hres[w].theirSide, hres[w].relTheir)
               /\ ReleasedOnce(hres[w].ourSide, hres[w].relOur)
               /\ ReleasedOnce(hres[w].ourProcess, hres[w].relProc)
               /\ ReleasedOnce(hres[w].clientProcess, hres[w].relClient)
        /\ Terminating(w) =>
               /\ hres[w].theirSide = "closed" /\ hres[w].relTheir = 1
               /\ hres[w].ourProcess = "closed" /\ hres[w].relProc = 1
               /\ hres[w].ourSide = "listener" /\ hres[w].relOur = 0
               /\ hres[w].clientProcess = "open" /\ hres[w].relClient = 0
               /\ hInputEvent = "null"

C20_Witness ==
    \E w \in Workers :
        /\ AttemptOver(w) /\ hres[w].established
        /\ hres[w].relTheir = 1 /\ hres[w].relOur = 1 /\ hres[w].relProc = 1
        /\ hres[w].relClient = 1 /\ hres[w].relWake = 1


(* C21. When reply delivery fails at the end of an otherwise successful      *)
(* connection request, the ProcessRecord and its history slot are freed      *)
(* exactly once, by the explicit rollback and not again by the scoped        *)
(* cleanup; afterwards the registry holds no record for the process and the  *)
(* session is still INITIALIZED.                                             *)
C21_DeliveryFailureFreesOnce ==
    \A w \in Workers :
        (msg[w].kind = "connect" /\ out[w].complete = "fail") =>
            /\ out[w].frees = 1
            /\ ProcessHandleList[msg[w].pid] = Absent
            /\ msg[w].pid \notin history
            /\ Flags
            /\ ConnectDone(w) => (msg[w].ret = "null" /\ ~msg[w].delivered)

C21_Witness ==
    \E w \in Workers :
        /\ ConnectDone(w) /\ out[w].complete = "fail" /\ out[w].frees = 1
        /\ out[w].inH = "ok" /\ out[w].outH = "ok" /\ Flags

(* C22. A ProcessRecord is never read or passed to a collaborator after it   *)
(* has been freed: every trace, notification or connection-info extraction   *)
(* of ConnectionRequest and ClientDisconnect uses a record still allocated.  *)
C22_NoUseAfterFree ==
    \A w \in Workers :
        /\ ~Happened(w, "TraceAttachOfFreed")
        /\ (Happened(w, "TraceDetach") /\ Happened(w, "RemoveConsole")) =>
               Position(trace[w], "TraceDetach") < Position(trace[w], "RemoveConsole")

=============================================================================
